---- MODULE Spec2Model ----
(***************************************************************************)
(* Model of the OpenRouter Responses API client of agentle:                *)
(*   OpenRouterResponder._respond_async, _stream_events and                *)
(*   _normalize_event_type                                                 *)
(*   (src/agentle/responses/open_router/open_router_responder.py).         *)
(*                                                                         *)
(* One request is followed from the call to _respond_async (or a direct    *)
(* call of _stream_events on a response the caller holds open) through    *)
(* the consumer's iteration of the returned stream.  The server body is a  *)
(* finite sequence of SSE lines; the transport may fail at any read.       *)
(***************************************************************************)
EXTENDS Integers, Sequences, FiniteSets, TLC

(* ---------------------------------------------------------------------- *)
(* Bounds                                                                 *)
(* ---------------------------------------------------------------------- *)
\* longest SSE body (number of lines) the server sends
MaxLines == 3

(* ---------------------------------------------------------------------- *)
(* _normalize_event_type: the vendor table                                *)
(* ---------------------------------------------------------------------- *)
type_mapping ==
       ("response.created" :> "ResponseCreatedEvent")
    @@ ("response.in_progress" :> "ResponseInProgressEvent")
    @@ ("response.completed" :> "ResponseCompletedEvent")
    @@ ("response.failed" :> "ResponseFailedEvent")
    @@ ("response.incomplete" :> "ResponseIncompleteEvent")
    @@ ("response.queued" :> "ResponseQueuedEvent")
    @@ ("response.error" :> "ResponseErrorEvent")
    @@ ("response.output_item.added" :> "ResponseOutputItemAddedEvent")
    @@ ("response.output_item.done" :> "ResponseOutputItemDoneEvent")
    @@ ("response.content_part.added" :> "ResponseContentPartAddedEvent")
    @@ ("response.content_part.done" :> "ResponseContentPartDoneEvent")
    @@ ("response.output_text.delta" :> "ResponseTextDeltaEvent")
    @@ ("response.output_text.done" :> "ResponseTextDoneEvent")
    @@ ("response.output_text.annotation.added" :> "ResponseOutputTextAnnotationAddedEvent")
    @@ ("response.reasoning.delta" :> "ResponseReasoningTextDeltaEvent")
    @@ ("response.reasoning.done" :> "ResponseReasoningTextDoneEvent")
    @@ ("response.reasoning_summary_part.added" :> "ResponseReasoningSummaryPartAddedEvent")
    @@ ("response.reasoning_summary_part.done" :> "ResponseReasoningSummaryPartDoneEvent")
    @@ ("response.reasoning_summary_text.delta" :> "ResponseReasoningSummaryTextDeltaEvent")
    @@ ("response.reasoning_summary_text.done" :> "ResponseReasoningSummaryTextDoneEvent")
    @@ ("response.refusal.delta" :> "ResponseRefusalDeltaEvent")
    @@ ("response.refusal.done" :> "ResponseRefusalDoneEvent")
    @@ ("response.function_call_arguments.delta" :> "ResponseFunctionCallArgumentsDeltaEvent")
    @@ ("response.function_call_arguments.done" :> "ResponseFunctionCallArgumentsDoneEvent")
    @@ ("response.audio.delta" :> "ResponseAudioDeltaEvent")
    @@ ("response.audio.done" :> "ResponseAudioDoneEvent")
    @@ ("response.audio_transcript.delta" :> "ResponseAudioTranscriptDeltaEvent")
    @@ ("response.audio_transcript.done" :> "ResponseAudioTranscriptDoneEvent")
    @@ ("response.web_search_call.in_progress" :> "ResponseWebSearchCallInProgressEvent")
    @@ ("response.web_search_call.searching" :> "ResponseWebSearchCallSearchingEvent")
    @@ ("response.web_search_call.completed" :> "ResponseWebSearchCallCompletedEvent")
    @@ ("response.file_search_call.in_progress" :> "ResponseFileSearchCallInProgressEvent")
    @@ ("response.file_search_call.searching" :> "ResponseFileSearchCallSearchingEvent")
    @@ ("response.file_search_call.completed" :> "ResponseFileSearchCallCompletedEvent")
    @@ ("response.code_interpreter_call.in_progress" :> "ResponseCodeInterpreterCallInProgressEvent")
    @@ ("response.code_interpreter_call.interpreting" :> "ResponseCodeInterpreterCallInterpretingEvent")
    @@ ("response.code_interpreter_call.completed" :> "ResponseCodeInterpreterCallCompletedEvent")
    @@ ("response.code_interpreter_call.code.delta" :> "ResponseCodeInterpreterCallCodeDeltaEvent")
    @@ ("response.code_interpreter_call.code.done" :> "ResponseCodeInterpreterCallCodeDoneEvent")
    @@ ("response.image_gen_call.in_progress" :> "ResponseImageGenCallInProgressEvent")
    @@ ("response.image_gen_call.generating" :> "ResponseImageGenCallGeneratingEvent")
    @@ ("response.image_gen_call.completed" :> "ResponseImageGenCallCompletedEvent")
    @@ ("response.image_gen_call.partial_image" :> "ResponseImageGenCallPartialImageEvent")
    @@ ("response.mcp_call.in_progress" :> "ResponseMCPCallInProgressEvent")
    @@ ("response.mcp_call.arguments.delta" :> "ResponseMCPCallArgumentsDeltaEvent")
    @@ ("response.mcp_call.arguments.done" :> "ResponseMCPCallArgumentsDoneEvent")
    @@ ("response.mcp_call.completed" :> "ResponseMCPCallCompletedEvent")
    @@ ("response.mcp_call.failed" :> "ResponseMCPCallFailedEvent")
    @@ ("response.mcp_list_tools.in_progress" :> "ResponseMCPListToolsInProgressEvent")
    @@ ("response.mcp_list_tools.completed" :> "ResponseMCPListToolsCompletedEvent")
    @@ ("response.mcp_list_tools.failed" :> "ResponseMCPListToolsFailedEvent")
    @@ ("response.custom_tool_call.input.delta" :> "ResponseCustomToolCallInputDeltaEvent")
    @@ ("response.custom_tool_call.input.done" :> "ResponseCustomToolCallInputDoneEvent")

\* dict.get(key, default) on the table (line 324)
\* variant: a type that is not a key becomes the empty string
MappingGet_NoDefault(t) ==
    IF t \in DOMAIN type_mapping THEN type_mapping[t] ELSE ""

\* variant: a mapped tag is mapped back to a vendor string
MappingGet_Toggle(t) ==
    IF t \in DOMAIN type_mapping THEN type_mapping[t]
    ELSE IF \E k \in DOMAIN type_mapping : type_mapping[k] = t
         THEN CHOOSE k \in DOMAIN type_mapping : type_mapping[k] = t
         ELSE t

MappingGet(t) == IF t \in DOMAIN type_mapping THEN type_mapping[t] ELSE t

\* the tags of the discriminated union ResponseStreamType: the class names
\* the table maps to ("our discriminator expects ResponseTextDeltaEvent")
ValidTags == {type_mapping[k] : k \in DOMAIN type_mapping}

(* ---------------------------------------------------------------------- *)
(* Payloads, lines, events                                                *)
(* ---------------------------------------------------------------------- *)
\* output of the response embedded in a completed event: two message items
\* (one with a refusal between two output_text contents) and a tool call
CompletedOutput ==
    << [type |-> "message",
        content |-> <<"output_text", "refusal", "output_text">>],
       [type |-> "function_call", content |-> <<>>],
       [type |-> "message", content |-> <<"output_text">>] >>

\* JSON text of a data line.  json: can json.loads read it, and is the
\* result a dict; typeKind: is "type" absent, a string, or an unhashable value
Payload(json, typeKind, type, shapeOk, delta, output) ==
    [json |-> json, typeKind |-> typeKind, type |-> type,
     shapeOk |-> shapeOk, delta |-> delta, output |-> output]

NoPayload == Payload("bad", "missing", "", FALSE, <<>>, <<>>)

\* one line of the body as the transport delivers it (bytes): utf8 says
\* whether bytes.decode("utf-8") succeeds; prefix and the rest are what
\* strip() leaves; done says the text after "data: " is the sentinel
Line(utf8, prefix, done, payload) ==
    [utf8 |-> utf8, prefix |-> prefix, done |-> done, payload |-> payload]

DataLine(payload) == Line(TRUE, "data: ", FALSE, payload)

\* The lines a body is made of, by name.  In the text of a delta the tokens
\* "{" "k" "4" "}" stand for  {  "math_result":  4  }
LineOf ==
       ("bad_utf8" :> Line(FALSE, "", FALSE, NoPayload))       \* b"\xff\n"
    @@ ("blank" :> Line(TRUE, "", FALSE, NoPayload))           \* b"\n"
    @@ ("event" :> Line(TRUE, "event: ", FALSE, NoPayload))    \* b"event: x\n"
    @@ ("comment" :> Line(TRUE, ": ", FALSE, NoPayload))       \* b": ping\n"
    @@ ("done" :> Line(TRUE, "data: ", TRUE, NoPayload))       \* b"data: [DONE]\n"
    @@ ("not_json" :> DataLine(NoPayload))                     \* data: {oops
    @@ ("json_array" :>                                        \* data: [1, 2]
          DataLine(Payload("array", "missing", "", FALSE, <<>>, <<>>)))
    @@ ("no_type" :>                                           \* data: {"delta": "4"}
          DataLine(Payload("obj", "missing", "", TRUE, <<"4">>, <<>>)))
    @@ ("list_type" :>                                         \* data: {"type": [1]}
          DataLine(Payload("obj", "list", "", TRUE, <<>>, <<>>)))
    @@ ("unknown_type" :>
          DataLine(Payload("obj", "str", "response.future", TRUE, <<>>, <<>>)))
    @@ ("bad_delta" :>                                         \* fields missing
          DataLine(Payload("obj", "str", "response.output_text.delta", FALSE,
                           <<>>, <<>>)))
    @@ ("created" :>
          DataLine(Payload("obj", "str", "response.created", TRUE, <<>>, <<>>)))
    @@ ("completed" :>
          DataLine(Payload("obj", "str", "response.completed", TRUE, <<>>,
                           CompletedOutput)))
    @@ ("tagged_completed" :>
          DataLine(Payload("obj", "str", "ResponseCompletedEvent", TRUE, <<>>,
                           CompletedOutput)))
    @@ ("tagged_delta" :>
          DataLine(Payload("obj", "str", "ResponseTextDeltaEvent", TRUE,
                           <<"4", "}">>, <<>>)))
    @@ ("delta_open" :>
          DataLine(Payload("obj", "str", "response.output_text.delta", TRUE,
                           <<"{", "k">>, <<>>)))
    @@ ("delta_close" :>
          DataLine(Payload("obj", "str", "response.output_text.delta", TRUE,
                           <<"4", "}">>, <<>>)))
    @@ ("delta_four" :>
          DataLine(Payload("obj", "str", "response.output_text.delta", TRUE,
                           <<"4">>, <<>>)))

Lines == DOMAIN LineOf

\* all bodies of at most n lines
RECURSIVE SeqsUpTo(_, _)
SeqsUpTo(S, n) ==
    IF n = 0 THEN { <<>> }
    ELSE LET shorter == SeqsUpTo(S, n - 1)
         IN  shorter \cup { Append(s, x) : s \in { t \in shorter : Len(t) = n - 1 },
                                           x \in S }

Bodies == SeqsUpTo(Lines, MaxLines)

\* a smaller alphabet with one line for each way the loop body can end:
\* undecodable bytes, [DONE], malformed JSON, and two valid events
CoreLines == {"bad_utf8", "done", "not_json", "created", "delta_four"}

CoreBodies == SeqsUpTo(CoreLines, MaxLines)

\* the event pydantic builds from a validated payload; parsed holds, for
\* every content of every output item, <<>> (None) or <<n>> (a model with
\* math_result = n)
NoParsed(output) ==
    [i \in 1..Len(output) |-> [j \in 1..Len(output[i].content) |-> <<>>]]

Event(d) == [type |-> d.type, delta |-> d.delta, output |-> d.output,
             parsed |-> NoParsed(d.output)]

(* ---------------------------------------------------------------------- *)
(* _normalize_event_type (lines 259-327)                                  *)
(* ---------------------------------------------------------------------- *)
\* event_data.get("type") of line 209: None when the key is absent
GetType(d) == IF d.typeKind = "missing" THEN "None" ELSE d.type

\* type_mapping.get raises TypeError on an unhashable key (a list or dict)
NormalizeRaises(d) == d.typeKind = "list"

_normalize_event_type(d) ==
    LET event_type == IF d.typeKind = "missing" THEN "" ELSE d.type
        normalized_type == MappingGet(event_type)
    IN  [d EXCEPT !.typeKind = "str", !.type = normalized_type]

\* TypeAdapter(ResponseStreamType).validate_python: the tag selects the
\* variant, then the variant's fields are validated
Validates(d) == d.typeKind = "str" /\ d.type \in ValidTags /\ d.shapeOk

(* ---------------------------------------------------------------------- *)
(* Structured output: json.loads and text_format.model_validate           *)
(* ---------------------------------------------------------------------- *)
AllFours(s) == Len(s) > 0 /\ \A i \in 1..Len(s) : s[i] = "4"

\* json.loads succeeds: a number, {} or {"math_result": <json>}
RECURSIVE IsJson(_)
IsJson(s) ==
    \/ AllFours(s)
    \/ s = <<"{", "}">>
    \/ /\ Len(s) >= 4
       /\ s[1] = "{" /\ s[2] = "k" /\ s[Len(s)] = "}"
       /\ IsJson(SubSeq(s, 3, Len(s) - 1))

\* value of a run of digits
RECURSIVE NumVal(_)
NumVal(s) == IF s = <<>> THEN 0 ELSE 10 * NumVal(SubSeq(s, 1, Len(s) - 1)) + 4

\* MathResponse.model_validate: an object whose math_result is an int
SchemaOk(s) ==
    /\ Len(s) >= 4
    /\ s[1] = "{" /\ s[2] = "k" /\ s[Len(s)] = "}"
    /\ AllFours(SubSeq(s, 3, Len(s) - 1))

ModelValidate(s) == << NumVal(SubSeq(s, 3, Len(s) - 1)) >>

\* variant: the parsed JSON is attached without validating it
InjectParsed_Unchecked(event, text) ==
    IF IsJson(text)
    THEN [event EXCEPT !.parsed =
            [i \in 1..Len(event.output) |->
               [j \in 1..Len(event.output[i].content) |->
                  IF event.output[i].type = "message"
                     /\ event.output[i].content[j] = "output_text"
                  THEN text
                  ELSE event.parsed[i][j]]]]
    ELSE event

\* lines 233-247: the parsed field of every content after the attempt
InjectParsed(event, text) ==
    IF IsJson(text) /\ SchemaOk(text)
    THEN [event EXCEPT !.parsed =
            [i \in 1..Len(event.output) |->
               [j \in 1..Len(event.output[i].content) |->
                  IF event.output[i].type = "message"
                     /\ event.output[i].content[j] = "output_text"
                  THEN ModelValidate(text)
                  ELSE event.parsed[i][j]]]]
    ELSE event

(* ---------------------------------------------------------------------- *)
(* State                                                                  *)
(* ---------------------------------------------------------------------- *)
VARIABLES
    pc,               \* where the call of _respond_async stands
    session,          \* aiohttp.ClientSession: "none", "open", "closed"
    response,         \* aiohttp.ClientResponse: "none", "open", "released"
    releases,         \* how many times the response was released
    closes,           \* how many times the session was closed
    status,           \* response.status
    is_streaming,     \* create_response.stream or False
    text_format,      \* "None" or "MathResponse"
    error,            \* the exception _respond_async raised, "none" if none
    input,            \* the lines of the body (response.content)
    pos,              \* number of lines read from response.content
    gen,              \* state of the _stream_events generator
    accumulated_text, \* local of _stream_events
    emitted,          \* events yielded to the consumer, in order
    parse_attempts,   \* times lines 233-247 ran (json.loads of the text)
    other,            \* a second stream of the same responder instance
    norm_data,        \* the dict handed to _normalize_event_type
    norm_arg,         \* that dict as it was before the first call
    normalize_calls,  \* calls of _normalize_event_type on norm_data
    message_limit,    \* ConversationStore.message_limit: <<>> is None
    override_old_messages, \* "None", "True" or "False"
    files,            \* the JSON files of the storage directory, by path
    added,            \* by path: messages passed to add since the last clear
    adds,             \* calls of add_message_async made
    last_call,        \* the last call made on the conversation store
    store,            \* FunctionCallStore.store
    call_log,         \* every call passed to add_function_call, in order
    field_specs,      \* ProgressiveProfilingAgent.field_specs
    _collected_data,  \* ProgressiveProfilingAgent._collected_data
    _attempts,        \* ProgressiveProfilingAgent._attempts
    returned,         \* what the last call of _save_field returned
    raised,           \* the exception the last library call let escape
    self_file,        \* the ParsedFile merge_all is called on
    others,           \* the argument of merge_all
    merged            \* <<>> or the one ParsedFile merge_all returned

vars == << pc, session, response, releases, closes, status, is_streaming,
           text_format, error, input, pos, gen, accumulated_text, emitted,
           parse_attempts, other, norm_data, norm_arg, normalize_calls,
           message_limit, override_old_messages, files, added, adds,
           last_call, store, call_log, field_specs, _collected_data,
           _attempts, returned, raised, self_file, others, merged >>

\* the state of one request and its stream
streamVars == << pc, session, response, releases, closes, status,
                 is_streaming, text_format, error, input, pos, gen,
                 accumulated_text, emitted, parse_attempts >>

\* the conversation store
storeVars == << message_limit, override_old_messages, files, added, adds,
                last_call >>

\* the function call store
callVars == << store, call_log >>

\* the profiling agent
agentVars == << field_specs, _collected_data, _attempts, returned >>

\* the operands and the result of merge_all
fileVars == << self_file, others, merged >>

\* the components that are not the responder
libVars == << storeVars, callVars, agentVars, fileVars, raised >>

\* what the steps of one request never touch
restVars == << other, norm_data, norm_arg, normalize_calls, libVars >>

\* the responder: its request, its streams and its normalizer
responderVars == << streamVars, other, norm_data, norm_arg, normalize_calls >>

\* a stream that was not started
NoStream == [input |-> <<>>, pos |-> 0, gen |-> "none", text_format |-> "None",
             accumulated_text |-> <<>>, emitted |-> <<>>]

Statuses == {200, 201, 404, 500}

TextFormats == {"None", "MathResponse"}

\* respond_async accepts only pydantic models as text_format
IsBaseModel(tf) == tf = "MathResponse"

\* no call made and no stream created
StreamInit ==
    /\ pc = "idle"
    /\ session = "none"
    /\ response = "none"
    /\ releases = 0
    /\ closes = 0
    /\ status = 0
    /\ is_streaming = FALSE
    /\ text_format = "None"
    /\ error = "none"
    /\ input = <<>>
    /\ pos = 0
    /\ gen = "none"
    /\ accumulated_text = <<>>
    /\ emitted = <<>>
    /\ parse_attempts = 0
    /\ other = NoStream

\* _normalize_event_type not called
NormIdle ==
    /\ norm_data = NoPayload
    /\ norm_arg = NoPayload
    /\ normalize_calls = 0

\* a ParsedFile with nothing in it
EmptyFile == [name |-> "", sections |-> <<>>, metadata |-> {}]

\* no conversation store constructed
StoreIdle ==
    /\ message_limit = <<>>
    /\ override_old_messages = "None"
    /\ files = {}
    /\ added = {}
    /\ adds = 0
    /\ last_call = [op |-> "none", chat_id |-> <<>>]

\* no function call store constructed
CallsIdle == store = {} /\ call_log = <<>>

\* no profiling agent constructed
AgentIdle ==
    /\ field_specs = <<>>
    /\ _collected_data = {}
    /\ _attempts = {}
    /\ returned = [call |-> "none", field_name |-> "", message |-> "none"]

\* merge_all not called
FilesIdle == self_file = EmptyFile /\ others = <<>> /\ merged = <<>>

Init ==
    /\ StreamInit
    /\ NormIdle
    /\ StoreIdle /\ CallsIdle /\ AgentIdle /\ FilesIdle
    /\ raised = "none"

(* ---------------------------------------------------------------------- *)
(* _respond_async (lines 95-146)                                          *)
(* ---------------------------------------------------------------------- *)
\* lines 100-125: the key check, then the session is entered
RespondAsync(stream, tf, has_key) ==
    /\ pc = "idle"
    /\ is_streaming' = stream
    /\ text_format' = tf
    /\ IF ~has_key
       THEN /\ pc' = "raised"
            /\ error' = "ValueError: No API key provided"
            /\ UNCHANGED session
       ELSE /\ pc' = "in_session"
            /\ session' = "open"
            /\ UNCHANGED error
    /\ UNCHANGED << response, releases, closes, status, input, pos, gen,
                    accumulated_text, emitted >>
    /\ UNCHANGED parse_attempts
    /\ UNCHANGED restVars

\* lines 126-130: the server answers; an SSE body only for a streamed 200
PostFrom(bodies) ==
    /\ pc = "in_session"
    /\ \E st \in Statuses :
         \E body \in (IF st = 200 /\ is_streaming THEN bodies ELSE { <<>> }) :
            /\ status' = st
            /\ input' = body
    /\ pc' = "got_response"
    /\ response' = "open"
    /\ UNCHANGED << session, releases, closes, is_streaming, text_format,
                    error, pos, gen, accumulated_text, emitted >>
    /\ UNCHANGED parse_attempts
    /\ UNCHANGED restVars

Post == PostFrom(Bodies)

\* the same answer with the body drawn from CoreBodies
PostCore == PostFrom(CoreBodies)

\* lines 126-130: the request fails before any response; the session
\* context exits
PostFail ==
    /\ pc = "in_session"
    /\ pc' = "raised"
    /\ error' = "ClientError"
    /\ session' = "closed"
    /\ closes' = closes + 1
    /\ UNCHANGED << response, releases, status, is_streaming, text_format,
                    input, pos, gen, accumulated_text, emitted >>
    /\ UNCHANGED parse_attempts
    /\ UNCHANGED restVars

\* variant: the response is handed to the stream and not released on exit
ExitContexts_Leak ==
    /\ session' = "closed"
    /\ closes' = closes + 1
    /\ UNCHANGED << response, releases >>

\* leaving both "async with" blocks (lines 125-126), by return or by raise
ExitContexts ==
    /\ response' = "released"
    /\ releases' = releases + 1
    /\ session' = "closed"
    /\ closes' = closes + 1

\* variant: only server errors are treated as errors
StatusIsError_ServerOnly(st) == st >= 500

\* line 131
StatusIsError(st) == st # 200

\* lines 131-135
RaiseStatus ==
    /\ pc = "got_response"
    /\ StatusIsError(status)
    /\ pc' = "raised"
    /\ error' = "ValueError: OpenRouter API error"
    /\ ExitContexts
    /\ UNCHANGED << status, is_streaming, text_format, input, pos, gen,
                    accumulated_text, emitted >>
    /\ UNCHANGED parse_attempts
    /\ UNCHANGED restVars

\* lines 137-142: the generator object is created (not started) and
\* returned from inside the two contexts, which exit on the return
ReturnStream ==
    /\ pc = "got_response"
    /\ ~StatusIsError(status)
    /\ is_streaming
    /\ pc' = "returned_stream"
    /\ gen' = "suspended"
    /\ ExitContexts
    /\ UNCHANGED << status, is_streaming, text_format, error, input, pos,
                    accumulated_text, emitted >>
    /\ UNCHANGED parse_attempts
    /\ UNCHANGED restVars

\* lines 143-146 and 148-176: the body is read and validated inside the
\* contexts; response.json() or model_validate may raise
NonStreaming(body_ok) ==
    /\ pc = "got_response"
    /\ ~StatusIsError(status)
    /\ ~is_streaming
    /\ IF body_ok
       THEN pc' = "returned_response" /\ UNCHANGED error
       ELSE pc' = "raised" /\ error' = "ValidationError"
    /\ ExitContexts
    /\ UNCHANGED << status, is_streaming, text_format, input, pos, gen,
                    accumulated_text, emitted >>
    /\ UNCHANGED parse_attempts
    /\ UNCHANGED restVars

\* _stream_events called on a response its caller holds open
DirectStream ==
    /\ pc = "idle"
    /\ pc' = "direct"
    /\ response' = "open"
    /\ status' = 200
    /\ is_streaming' = TRUE
    /\ \E tf \in TextFormats, body \in Bodies :
          text_format' = tf /\ input' = body
    /\ gen' = "suspended"
    /\ UNCHANGED << session, releases, closes, error, pos, accumulated_text,
                    emitted >>
    /\ UNCHANGED parse_attempts
    /\ UNCHANGED restVars

(* ---------------------------------------------------------------------- *)
(* _stream_events (lines 178-257)                                         *)
(* ---------------------------------------------------------------------- *)
\* tried: did the structured-output attempt of lines 233-247 run
Outcome(next, acc, ev) ==
    [next |-> next, acc |-> acc, event |-> ev, tried |-> FALSE]

\* variant: no "except Exception" around the decoding of a payload
Decode_NoCatch(d, acc, tf) ==
    LET event_data == _normalize_event_type(d)
        event == Event(event_data)
    IN  IF NormalizeRaises(d) \/ ~Validates(event_data)
        THEN Outcome("raise", acc, <<>>)
        ELSE Outcome("yield",
                     IF GetType(d) = "response.output_text.delta"
                     THEN acc \o event_data.delta ELSE acc,
                     <<event>>)

\* variant: the attempt does not require accumulated text
Decode_NoEmptyCheck(d, acc, tf) ==
    LET event_type == GetType(d)
        event_data == _normalize_event_type(d)
        event == Event(event_data)
        acc2 == IF event_type = "response.output_text.delta"
                THEN acc \o event_data.delta
                ELSE acc
        attempt == /\ event_type = "response.completed"
                   /\ tf # "None"
                   /\ event.type = "ResponseCompletedEvent"
                   /\ IsBaseModel(tf)
        event2 == IF attempt THEN InjectParsed(event, acc2) ELSE event
    IN  IF NormalizeRaises(d) \/ ~Validates(event_data)
        THEN Outcome("continue", acc, <<>>)
        ELSE [Outcome("yield", acc2, <<event2>>) EXCEPT !.tried = attempt]

\* variant: the delta of a payload is accumulated before the payload is
\* validated, whatever its type
Decode_AccumulatesAnyDelta(d, acc, tf) ==
    LET event_type == GetType(d)
        event_data == _normalize_event_type(d)
        event == Event(event_data)
        acc2 == acc \o d.delta
        attempt == /\ event_type = "response.completed"
                   /\ tf # "None"
                   /\ acc2 # <<>>
                   /\ event.type = "ResponseCompletedEvent"
                   /\ IsBaseModel(tf)
        event2 == IF attempt THEN InjectParsed(event, acc2) ELSE event
    IN  IF NormalizeRaises(d) \/ ~Validates(event_data)
        THEN Outcome("continue", acc2, <<>>)
        ELSE [Outcome("yield", acc2, <<event2>>) EXCEPT !.tried = attempt]

\* lines 207-249, for a payload json.loads made a dict of
Decode(d, acc, tf) ==
    LET event_type == GetType(d)
        event_data == _normalize_event_type(d)
        event == Event(event_data)
        acc2 == IF event_type = "response.output_text.delta"
                THEN acc \o event_data.delta
                ELSE acc
        attempt == /\ event_type = "response.completed"
                   /\ tf # "None"
                   /\ acc2 # <<>>
                   /\ event.type = "ResponseCompletedEvent"
                   /\ IsBaseModel(tf)
        event2 == IF attempt THEN InjectParsed(event, acc2) ELSE event
    IN  IF NormalizeRaises(d) \/ ~Validates(event_data)
        THEN Outcome("continue", acc, <<>>)
        ELSE [Outcome("yield", acc2, <<event2>>) EXCEPT !.tried = attempt]

\* variant: the sentinel is skipped like malformed JSON instead of ending
\* the loop
LoopBody_DoneIgnored(line, acc, tf) ==
    IF ~line.utf8 THEN Outcome("raise", acc, <<>>)
    ELSE IF line.prefix = "data: " /\ ~line.done /\ line.payload.json = "obj"
         THEN Decode(line.payload, acc, tf)
         ELSE Outcome("continue", acc, <<>>)

\* variant: a non-blank line that is neither event: nor data: is an error
LoopBody_StrictLines(line, acc, tf) ==
    IF ~line.utf8 THEN Outcome("raise", acc, <<>>)
    ELSE IF line.prefix = "" THEN Outcome("continue", acc, <<>>)
    ELSE IF line.prefix = "event: " THEN Outcome("continue", acc, <<>>)
    ELSE IF line.prefix = "data: "
         THEN IF line.done THEN Outcome("break", acc, <<>>)
              ELSE IF line.payload.json # "obj"
                   THEN Outcome("continue", acc, <<>>)
                   ELSE Decode(line.payload, acc, tf)
    ELSE Outcome("raise", acc, <<>>)

\* the body of the loop over response.content (lines 192-257) for one line
LoopBody(line, acc, tf) ==
    IF ~line.utf8 THEN Outcome("raise", acc, <<>>)
    ELSE IF line.prefix = "" THEN Outcome("continue", acc, <<>>)
    ELSE IF line.prefix = "event: " THEN Outcome("continue", acc, <<>>)
    ELSE IF line.prefix = "data: "
         THEN IF line.done THEN Outcome("break", acc, <<>>)
              ELSE IF line.payload.json # "obj"
                   THEN Outcome("continue", acc, <<>>)
                   ELSE Decode(line.payload, acc, tf)
    ELSE Outcome("continue", acc, <<>>)

GenLive == {"suspended", "reading"}

\* the consumer asks for the next event: the generator runs (from its
\* start or from the yield of line 249) to the read of line 191
Pull ==
    /\ gen = "suspended"
    /\ gen' = "reading"
    /\ UNCHANGED << pc, session, response, releases, closes, status,
                    is_streaming, text_format, error, input, pos,
                    accumulated_text, emitted >>
    /\ UNCHANGED parse_attempts
    /\ UNCHANGED restVars

\* variant: the generator goes on reading after it decoded an event
ReadLine_ReadsAhead ==
    /\ gen = "reading"
    /\ pos < Len(input)
    /\ LET r == LoopBody(LineOf[input[pos + 1]], accumulated_text, text_format)
       IN  /\ pos' = pos + 1
           /\ accumulated_text' = r.acc
           /\ emitted' = emitted \o r.event
           /\ parse_attempts' = parse_attempts + (IF r.tried THEN 1 ELSE 0)
           /\ gen' = CASE r.next = "continue" -> "reading"
                       [] r.next = "yield" -> "reading"
                       [] r.next = "break" -> "done"
                       [] r.next = "raise" -> "decode_error"
    /\ UNCHANGED << pc, session, response, releases, closes, status,
                    is_streaming, text_format, error, input >>
    /\ UNCHANGED restVars

\* line 191 delivers the next line and the loop body runs on it
ReadLine ==
    /\ gen = "reading"
    /\ pos < Len(input)
    /\ LET r == LoopBody(LineOf[input[pos + 1]], accumulated_text, text_format)
       IN  /\ pos' = pos + 1
           /\ accumulated_text' = r.acc
           /\ emitted' = emitted \o r.event
           /\ parse_attempts' = parse_attempts + (IF r.tried THEN 1 ELSE 0)
           /\ gen' = CASE r.next = "continue" -> "reading"
                       [] r.next = "yield" -> "suspended"
                       [] r.next = "break" -> "done"
                       [] r.next = "raise" -> "decode_error"
    /\ UNCHANGED << pc, session, response, releases, closes, status,
                    is_streaming, text_format, error, input >>
    /\ UNCHANGED restVars

\* line 191: response.content is exhausted, the loop ends
ReadEOF ==
    /\ gen = "reading"
    /\ pos = Len(input)
    /\ gen' = "eof"
    /\ UNCHANGED << pc, session, response, releases, closes, status,
                    is_streaming, text_format, error, input, pos,
                    accumulated_text, emitted >>
    /\ UNCHANGED parse_attempts
    /\ UNCHANGED restVars

\* variant: a failed read is turned into a failed event for the consumer
ReadFail_Fabricates ==
    /\ gen = "reading"
    /\ gen' = "transport_error"
    /\ emitted' = Append(emitted,
                         [type |-> "ResponseFailedEvent", delta |-> <<>>,
                          output |-> <<>>, parsed |-> <<>>])
    /\ UNCHANGED << pc, session, response, releases, closes, status,
                    is_streaming, text_format, error, input, pos,
                    accumulated_text >>
    /\ UNCHANGED parse_attempts
    /\ UNCHANGED restVars

\* line 191: the read raises (connection dropped, timeout, cancelled task,
\* response already released); nothing catches it
ReadFail ==
    /\ gen = "reading"
    /\ gen' = "transport_error"
    /\ UNCHANGED << pc, session, response, releases, closes, status,
                    is_streaming, text_format, error, input, pos,
                    accumulated_text, emitted >>
    /\ UNCHANGED parse_attempts
    /\ UNCHANGED restVars

\* the consumer abandons the stream: the generator is closed where it is
\* suspended and never resumed
Cancel ==
    /\ gen = "suspended"
    /\ gen' = "closed"
    /\ UNCHANGED << pc, session, response, releases, closes, status,
                    is_streaming, text_format, error, input, pos,
                    accumulated_text, emitted >>
    /\ UNCHANGED parse_attempts
    /\ UNCHANGED restVars

Next ==
    \/ \E stream \in BOOLEAN, tf \in TextFormats, has_key \in BOOLEAN :
           RespondAsync(stream, tf, has_key)
    \/ Post
    \/ PostFail
    \/ RaiseStatus
    \/ ReturnStream
    \/ \E body_ok \in BOOLEAN : NonStreaming(body_ok)
    \/ DirectStream
    \/ Pull
    \/ ReadLine
    \/ ReadEOF
    \/ ReadFail
    \/ Cancel

Spec == Init /\ [][Next]_vars

\* The call of _respond_async alone, on bodies over CoreLines, with the
\* scheduling of the event loop: a coroutine that can take a step takes it.
\* The consumer may stop pulling, so Pull and Cancel are not forced.
RespondNext ==
    \/ \E stream \in BOOLEAN, tf \in TextFormats, has_key \in BOOLEAN :
           RespondAsync(stream, tf, has_key)
    \/ PostCore
    \/ PostFail
    \/ RaiseStatus
    \/ ReturnStream
    \/ \E body_ok \in BOOLEAN : NonStreaming(body_ok)
    \/ Pull
    \/ ReadLine
    \/ ReadEOF
    \/ ReadFail
    \/ Cancel

FairSpec ==
    /\ Init /\ [][RespondNext]_vars
    /\ WF_vars(PostCore \/ PostFail)
    /\ WF_vars(RaiseStatus)
    /\ WF_vars(ReturnStream)
    /\ WF_vars(\E body_ok \in BOOLEAN : NonStreaming(body_ok))
    /\ WF_vars(ReadLine \/ ReadEOF \/ ReadFail)

\* ---- _normalize_event_type as a function of the payload ----

MaxNormalizeCalls == 2

\* payloads to normalize: every vendor string, every tag, a string that is
\* neither, the empty string, a missing type and an unhashable type
NormPayloads ==
    { Payload("obj", "str", t, ok, d, <<>>) :
         t \in DOMAIN type_mapping \cup ValidTags \cup {"", "response.future"},
         ok \in BOOLEAN, d \in {<<>>, <<"4">>} }
    \cup { Payload("obj", k, "", ok, <<"4">>, CompletedOutput) :
              k \in {"missing", "list"}, ok \in BOOLEAN }

NormInit ==
    /\ StreamInit
    /\ \E d \in NormPayloads : norm_arg = d /\ norm_data = d
    /\ normalize_calls = 0
    /\ StoreIdle /\ CallsIdle /\ AgentIdle /\ FilesIdle
    /\ raised = "none"

\* lines 265-327 on the dict the previous call returned
Normalize ==
    /\ normalize_calls < MaxNormalizeCalls
    /\ ~NormalizeRaises(norm_data)
    /\ norm_data' = _normalize_event_type(norm_data)
    /\ normalize_calls' = normalize_calls + 1
    /\ UNCHANGED << norm_arg, other, libVars >>
    /\ UNCHANGED streamVars

\* line 324 raises TypeError on an unhashable type: nothing is returned
NormalizeTypeError ==
    /\ normalize_calls < MaxNormalizeCalls
    /\ NormalizeRaises(norm_data)
    /\ error = "none"
    /\ error' = "TypeError"
    /\ UNCHANGED << pc, session, response, releases, closes, status,
                    is_streaming, text_format, input, pos, gen,
                    accumulated_text, emitted, parse_attempts >>
    /\ UNCHANGED restVars

NormNext == Normalize \/ NormalizeTypeError

NormSpec == NormInit /\ [][NormNext]_vars

\* ---- two streams of one responder, consumed in any interleaving ----

MaxPairLines == 3

\* the lines of a structured answer: two deltas that make {"math_result": 4}
\* and the completed event
PairLines == {"delta_open", "delta_close", "completed"}

PairBodies == SeqsUpTo(PairLines, MaxPairLines)

\* the second stream's body: an answer that is JSON but not a MathResponse
OtherLines == {"delta_four", "completed"}

OtherBodies == SeqsUpTo(OtherLines, MaxPairLines)

\* two calls of _stream_events on the same instance, each on its own
\* response and with its own text_format
StartPair ==
    /\ pc = "idle"
    /\ pc' = "pair"
    /\ response' = "open"
    /\ status' = 200
    /\ is_streaming' = TRUE
    /\ gen' = "suspended"
    /\ \E tf \in TextFormats, body \in PairBodies :
          text_format' = tf /\ input' = body
    /\ \E tf \in TextFormats, body \in OtherBodies :
          other' = [NoStream EXCEPT !.input = body, !.text_format = tf,
                                    !.gen = "suspended"]
    /\ UNCHANGED << session, releases, closes, error, pos, accumulated_text,
                    emitted, parse_attempts >>
    /\ UNCHANGED << norm_data, norm_arg, normalize_calls, libVars >>

\* the consumer of the second stream asks for its next event
OtherPull ==
    /\ other.gen = "suspended"
    /\ other' = [other EXCEPT !.gen = "reading"]
    /\ UNCHANGED << norm_data, norm_arg, normalize_calls, libVars >>
    /\ UNCHANGED streamVars

\* variant: the text buffer is an attribute of the responder, shared by
\* its streams
OtherReadLine_SharedText ==
    /\ other.gen = "reading"
    /\ other.pos < Len(other.input)
    /\ LET r == LoopBody(LineOf[other.input[other.pos + 1]],
                         accumulated_text, other.text_format)
       IN  /\ other' = [other EXCEPT
                          !.pos = other.pos + 1,
                          !.accumulated_text = r.acc,
                          !.emitted = other.emitted \o r.event,
                          !.gen = CASE r.next = "continue" -> "reading"
                                    [] r.next = "yield" -> "suspended"
                                    [] r.next = "break" -> "done"
                                    [] r.next = "raise" -> "decode_error"]
           /\ accumulated_text' = r.acc
    /\ UNCHANGED << pc, session, response, releases, closes, status,
                    is_streaming, text_format, error, input, pos, gen,
                    emitted, parse_attempts >>
    /\ UNCHANGED << norm_data, norm_arg, normalize_calls, libVars >>

\* line 191 and the loop body in the second generator: accumulated_text is
\* a local of the generator (line 189)
OtherReadLine ==
    /\ other.gen = "reading"
    /\ other.pos < Len(other.input)
    /\ LET r == LoopBody(LineOf[other.input[other.pos + 1]],
                         other.accumulated_text, other.text_format)
       IN  other' = [other EXCEPT
                       !.pos = other.pos + 1,
                       !.accumulated_text = r.acc,
                       !.emitted = other.emitted \o r.event,
                       !.gen = CASE r.next = "continue" -> "reading"
                                 [] r.next = "yield" -> "suspended"
                                 [] r.next = "break" -> "done"
                                 [] r.next = "raise" -> "decode_error"]
    /\ UNCHANGED << norm_data, norm_arg, normalize_calls, libVars >>
    /\ UNCHANGED streamVars

OtherReadEOF ==
    /\ other.gen = "reading"
    /\ other.pos = Len(other.input)
    /\ other' = [other EXCEPT !.gen = "eof"]
    /\ UNCHANGED << norm_data, norm_arg, normalize_calls, libVars >>
    /\ UNCHANGED streamVars

PairNext ==
    \/ StartPair
    \/ Pull
    \/ ReadLine
    \/ ReadEOF
    \/ OtherPull
    \/ OtherReadLine
    \/ OtherReadEOF

PairSpec == Init /\ [][PairNext]_vars

(* ---------------------------------------------------------------------- *)
(* Python dicts, as sets of <<key, value>> pairs with one pair for a key  *)
(* ---------------------------------------------------------------------- *)
Keys(d) == {p[1] : p \in d}

\* d[k], for a key of d
Get(d, k) == (CHOOSE p \in d : p[1] = k)[2]

\* d[k] = v
Put(d, k, v) == {p \in d : p[1] # k} \cup {<<k, v>>}

\* the dict without the key k
Del(d, k) == {p \in d : p[1] # k}

\* d.get(k, default)
GetOr(d, k, default) == IF k \in Keys(d) THEN Get(d, k) ELSE default

(* ---------------------------------------------------------------------- *)
(* JSONFileConversationStore                                              *)
(* ---------------------------------------------------------------------- *)
MaxLimit == 2

MaxAdds == 4

\* chat ids, as strings of characters: two of them differ only in a
\* character that is not filesystem-safe
ChatIds == { <<"a">>, <<"a", "/">>, <<"b">> }

\* line 45: c.isalnum() or c in ("-", "_", ".")
IsSafeChar(c) == c \in {"a", "b", "-", "_", "."}

\* lines 42-46: the file of a chat id, named by its safe characters
_get_file_path(chat_id) == SelectSeq(chat_id, IsSafeChar)

Messages ==
    { [type |-> "UserMessage", role |-> "user", text |-> "hi"],
      [type |-> "AssistantMessage", role |-> "assistant", text |-> "ok"] }

\* lines 71-76: model_dump plus the class name
_message_to_dict(message) ==
    [role |-> message.role, text |-> message.text,
     _message_type |-> message.type]

\* lines 78-100: the class is chosen by _message_type, else by role, else
\* UserMessage
_dict_to_message(message_dict) ==
    LET message_type == message_dict._message_type
        cls == IF message_type \in {"DeveloperMessage", "UserMessage",
                                    "AssistantMessage"}
               THEN message_type
               ELSE IF message_dict.role = "developer" THEN "DeveloperMessage"
               ELSE IF message_dict.role = "assistant" THEN "AssistantMessage"
               ELSE "UserMessage"
    IN  [type |-> cls, role |-> message_dict.role, text |-> message_dict.text]

\* lines 48-58: the list in the file, [] when there is no file
_load_messages(fs, chat_id) == GetOr(fs, _get_file_path(chat_id), <<>>)

\* lines 127-144
get_conversation_history_async(fs, chat_id) ==
    LET messages_data == _load_messages(fs, chat_id)
    IN  [i \in 1..Len(messages_data) |-> _dict_to_message(messages_data[i])]

\* line 110-111: a limit is set and the conversation has reached it
LimitReached(messages_data) ==
    message_limit # <<>> /\ Len(messages_data) >= message_limit[1]

\* variant: old messages are overridden unless the flag is False
Overrides_UnlessFalse(flag) == flag # "False"

\* line 112: the truth value of override_old_messages (None is false)
Overrides(flag) == flag = "True"

\* variant: room is made by dropping the newest messages
Evict_DropsNewest(messages_data) ==
    LET messages_to_remove == Len(messages_data) - message_limit[1] + 1
    IN  SubSeq(messages_data, 1, Len(messages_data) - messages_to_remove)

\* lines 114-115: messages_data[messages_to_remove:]
Evict(messages_data) ==
    LET messages_to_remove == Len(messages_data) - message_limit[1] + 1
    IN  SubSeq(messages_data, messages_to_remove + 1, Len(messages_data))

Limits == { <<>> } \cup { <<l>> : l \in 0..MaxLimit }

\* lines 22-40: a store on an empty directory
StoreInit ==
    /\ StreamInit /\ NormIdle /\ CallsIdle /\ AgentIdle /\ FilesIdle
    /\ raised = "none"
    /\ message_limit \in Limits
    /\ override_old_messages \in {"None", "True", "False"}
    /\ files = {}
    /\ added = {}
    /\ adds = 0
    /\ last_call = [op |-> "none", chat_id |-> <<>>]

\* lines 102-125
add_message_async(chat_id, message) ==
    /\ adds < MaxAdds
    /\ LET path == _get_file_path(chat_id)
           messages_data == _load_messages(files, chat_id)
           full == LimitReached(messages_data)
           kept == IF full THEN Evict(messages_data) ELSE messages_data
       IN  /\ files' = IF full /\ ~Overrides(override_old_messages)
                       THEN files
                       ELSE Put(files, path,
                                Append(kept, _message_to_dict(message)))
           /\ added' = Put(added, path,
                           Append(GetOr(added, path, <<>>), message))
    /\ adds' = adds + 1
    /\ last_call' = [op |-> "add", chat_id |-> chat_id]
    /\ raised' = "none"
    /\ UNCHANGED << message_limit, override_old_messages >>
    /\ UNCHANGED << callVars, agentVars, fileVars >>
    /\ UNCHANGED responderVars

\* lines 146-156
clear_conversation_async(chat_id) ==
    /\ files' = Del(files, _get_file_path(chat_id))
    /\ added' = Del(added, _get_file_path(chat_id))
    /\ last_call' = [op |-> "clear", chat_id |-> chat_id]
    /\ raised' = "none"
    /\ UNCHANGED << message_limit, override_old_messages, adds >>
    /\ UNCHANGED << callVars, agentVars, fileVars >>
    /\ UNCHANGED responderVars

StoreNext ==
    \/ \E chat_id \in ChatIds, message \in Messages :
          add_message_async(chat_id, message)
    \/ \E chat_id \in ChatIds : clear_conversation_async(chat_id)

StoreSpec == StoreInit /\ [][StoreNext]_vars

(* ---------------------------------------------------------------------- *)
(* FunctionCallStore                                                      *)
(* ---------------------------------------------------------------------- *)
MaxCalls == 3

ToolNames == {"f", "g", "h"}

\* an optional value: <<>> is None, <<v>> is the value v
NoneValue == <<>>

\* lines 8-15
ToolPair(function_tool, function_calls) ==
    [function_tool |-> function_tool, function_calls |-> function_calls]

\* lines 17-18
change_function_tool(pair, function_tool) ==
    [pair EXCEPT !.function_tool = <<function_tool>>]

\* variant: the new call replaces the recorded ones
change_function_call_Replaces(pair, function_call) ==
    [pair EXCEPT !.function_calls = << <<function_call>> >>]

\* lines 20-23
change_function_call(pair, function_call) ==
    LET calls == IF pair.function_calls = NoneValue
                 THEN <<>> ELSE pair.function_calls[1]
    IN  [pair EXCEPT !.function_calls = << Append(calls, function_call) >>]

\* list[index] in Python: negative indices count from the end
PyGetItem(list, index) ==
    IF index >= 0 /\ index < Len(list)
    THEN [raised |-> "none", value |-> <<list[index + 1]>>]
    ELSE IF index < 0 /\ -index <= Len(list)
    THEN [raised |-> "none", value |-> <<list[Len(list) + index + 1]>>]
    ELSE [raised |-> "IndexError", value |-> NoneValue]

\* lines 78-91
retrieve_function_calls(st, name) ==
    IF name \notin Keys(st) THEN NoneValue ELSE Get(st, name).function_calls

\* lines 93-113
retrieve_function_call(st, name, index) ==
    LET function_calls == retrieve_function_calls(st, name)
    IN  IF function_calls = NoneValue \/ function_calls[1] = <<>>
        THEN [raised |-> "none", value |-> NoneValue]
        ELSE LET item == PyGetItem(function_calls[1], index)
             IN  IF item.raised = "IndexError"
                 THEN [raised |-> "none", value |-> NoneValue]
                 ELSE item

\* a FunctionCallStore constructed on an empty dict
CallsInit ==
    /\ StreamInit /\ NormIdle /\ StoreIdle /\ AgentIdle /\ FilesIdle
    /\ raised = "none"
    /\ store = {}
    /\ call_log = <<>>

\* lines 56-62
add_function_tool(function_tool) ==
    /\ store' = IF function_tool \notin Keys(store)
                THEN Put(store, function_tool,
                         ToolPair(<<function_tool>>, NoneValue))
                ELSE Put(store, function_tool,
                         change_function_tool(Get(store, function_tool),
                                              function_tool))
    /\ raised' = "none"
    /\ UNCHANGED call_log
    /\ UNCHANGED << storeVars, agentVars, fileVars >>
    /\ UNCHANGED responderVars

\* lines 64-70
add_function_call(function_call) ==
    /\ Len(call_log) < MaxCalls
    /\ store' = IF function_call.name \notin Keys(store)
                THEN Put(store, function_call.name,
                         ToolPair(NoneValue, << <<function_call>> >>))
                ELSE Put(store, function_call.name,
                         change_function_call(Get(store, function_call.name),
                                              function_call))
    /\ call_log' = Append(call_log, function_call)
    /\ raised' = "none"
    /\ UNCHANGED << storeVars, agentVars, fileVars >>
    /\ UNCHANGED responderVars

CallsNext ==
    \/ \E name \in ToolNames : add_function_tool(name)
    \/ \E name \in ToolNames :
          add_function_call([name |-> name, call_id |-> Len(call_log) + 1])

CallsSpec == CallsInit /\ [][CallsNext]_vars

(* ---------------------------------------------------------------------- *)
(* ProgressiveProfilingAgent                                              *)
(* ---------------------------------------------------------------------- *)
MaxSpecs == 3

\* the field specs of the example (lines 318-344): name, type, required
SpecPool ==
    { [name |-> "full_name", type |-> "string", required |-> TRUE],
      [name |-> "email", type |-> "email", required |-> TRUE],
      [name |-> "age", type |-> "integer", required |-> TRUE],
      [name |-> "interests", type |-> "string", required |-> FALSE] }

SpecLists == SeqsUpTo(SpecPool, MaxSpecs)

FieldNames == {fs.name : fs \in SpecPool} \cup {"unknown"}

\* a Python value: its class and its characters
PyValue(py, chars) == [py |-> py, s |-> chars]

\* values a tool call can pass: strings, an int and None
Values ==
    { PyValue("str", <<"4", "2">>),
      PyValue("str", <<"a", "b">>),
      PyValue("str", <<" ", "A", "@", "b", ".", "c">>),
      PyValue("str", <<"a", "@", "b">>),
      PyValue("int", <<"7">>),
      PyValue("NoneType", <<>>) }

Digits == {"1", "2", "4", "7"}

\* str(value)
PyStr(value) ==
    IF value.py = "NoneType" THEN <<"N", "o", "n", "e">> ELSE value.s

\* str.lower, one character
LowerChar(c) == IF c = "A" THEN "a" ELSE IF c = "N" THEN "n" ELSE c

Lower(chars) == [i \in 1..Len(chars) |-> LowerChar(chars[i])]

\* str.strip
RECURSIVE Strip(_)
Strip(chars) ==
    IF chars = <<>> THEN <<>>
    ELSE IF Head(chars) = " " THEN Strip(Tail(chars))
    ELSE IF chars[Len(chars)] = " "
         THEN Strip(SubSeq(chars, 1, Len(chars) - 1))
    ELSE chars

Contains(chars, c) == \E i \in 1..Len(chars) : chars[i] = c

\* chars.split(c)[1], for chars that contain c
RECURSIVE UpTo(_, _)
UpTo(chars, c) ==
    IF chars = <<>> \/ Head(chars) = c THEN <<>>
    ELSE <<Head(chars)>> \o UpTo(Tail(chars), c)

SecondPart(chars, c) ==
    LET first == Len(UpTo(chars, c))
    IN  UpTo(SubSeq(chars, first + 2, Len(chars)), c)

\* the outcome of an expression: a value, or the exception it raised
Returned(value) == [raised |-> "none", value |-> value]

Raised(exception) == [raised |-> exception, value |-> PyValue("NoneType", <<>>)]

\* int(value): digits give an int, other text raises ValueError, None
\* raises TypeError
PyInt(value) ==
    IF value.py = "NoneType" THEN Raised("TypeError")
    ELSE IF value.py = "int" THEN Returned(value)
    ELSE LET text == Strip(value.s)
         IN  IF text # <<>> /\ \A i \in 1..Len(text) : text[i] \in Digits
             THEN Returned(PyValue("int", text))
             ELSE Raised("ValueError")

\* float(value)
PyFloat(value) ==
    LET n == PyInt(value)
    IN  IF n.raised # "none" THEN n
        ELSE Returned(PyValue("float", n.value.s \o <<".", "0">>))

PyBool(b) == PyValue("bool", IF b THEN <<"True">> ELSE <<"False">>)

\* lines 272-294
_convert_value(value, field_type) ==
    CASE field_type = "string" -> Returned(PyValue("str", PyStr(value)))
      [] field_type = "integer" -> PyInt(value)
      [] field_type = "float" -> PyFloat(value)
      [] field_type = "boolean" ->
            IF value.py = "str"
            THEN Returned(PyBool(Lower(value.s) \in
                    { <<"t", "r", "u", "e">>, <<"y", "e", "s">>, <<"1">>,
                      <<"o", "n">> }))
            ELSE Returned(PyBool(value.py = "int" /\ value.s # <<"0">>))
      [] field_type = "email" ->
            LET email_str == Lower(Strip(PyStr(value)))
            IN  IF ~Contains(email_str, "@")
                   \/ ~Contains(SecondPart(email_str, "@"), ".")
                THEN Raised("ValueError")
                ELSE Returned(PyValue("str", email_str))
      [] field_type = "date" -> Returned(PyValue("str", PyStr(value)))
      [] OTHER -> Returned(value)

\* lines 194-196: next(fs for fs in field_specs if fs.name == field_name)
RECURSIVE FindSpec(_, _)
FindSpec(specs, field_name) ==
    IF specs = <<>> THEN NoneValue
    ELSE IF Head(specs).name = field_name THEN <<Head(specs)>>
    ELSE FindSpec(Tail(specs), field_name)

\* variant: every field is needed for completion, required or not
IsMissing_IgnoresRequired(spec, data) == spec.name \notin Keys(data)

\* lines 299 and 307: a required field that is not collected
IsMissing(spec, data) == spec.required /\ spec.name \notin Keys(data)

\* lines 296-301
RECURSIVE _check_completion(_, _)
_check_completion(specs, data) ==
    IF specs = <<>> THEN TRUE
    ELSE IF IsMissing(Head(specs), data) THEN FALSE
    ELSE _check_completion(Tail(specs), data)

\* lines 303-309
RECURSIVE _get_pending_fields(_, _)
_get_pending_fields(specs, data) ==
    IF specs = <<>> THEN <<>>
    ELSE (IF IsMissing(Head(specs), data)
          THEN <<Head(specs).name>> ELSE <<>>)
         \o _get_pending_fields(Tail(specs), data)

\* lines 167-169
is_complete == _check_completion(field_specs, _collected_data)

\* lines 264-270
_get_current_state ==
    [fields |-> _collected_data,
     pending_fields |-> _get_pending_fields(field_specs, _collected_data),
     completed |-> _check_completion(field_specs, _collected_data)]

\* lines 242-250: the names listed as collected and as pending
RECURSIVE ListedPending(_, _)
ListedPending(specs, data) ==
    IF specs = <<>> THEN <<>>
    ELSE (IF Head(specs).name \in Keys(data) THEN <<>>
          ELSE <<Head(specs).name>>)
         \o ListedPending(Tail(specs), data)

\* lines 237-262: the section that closes the report
_list_collected_fields ==
    LET pending == ListedPending(field_specs, _collected_data)
    IN  [pending |-> pending,
         closing |-> IF pending # <<>> THEN "Still Needed"
                     ELSE "All required fields have been collected"]

NoCall == [call |-> "none", field_name |-> "", message |-> "none"]

\* an agent on some field specs, nothing collected
AgentInit ==
    /\ StreamInit /\ NormIdle /\ StoreIdle /\ CallsIdle /\ FilesIdle
    /\ raised = "none"
    /\ field_specs \in SpecLists
    /\ _collected_data = {}
    /\ _attempts = {}
    /\ returned = NoCall

\* lines 191-213
_save_field(field_name, value) ==
    /\ LET field_spec == FindSpec(field_specs, field_name)
           converted == _convert_value(value, field_spec[1].type)
       IN  IF field_spec = NoneValue
           THEN /\ returned' = [call |-> "_save_field",
                                field_name |-> field_name,
                                message |-> "Error: not a recognized field"]
                /\ raised' = "none"
                /\ UNCHANGED << _collected_data, _attempts >>
           ELSE IF converted.raised = "none"
           THEN /\ _collected_data' =
                      Put(_collected_data, field_name, converted.value)
                /\ _attempts' = Put(_attempts, field_name, 0)
                /\ returned' = [call |-> "_save_field",
                                field_name |-> field_name,
                                message |-> "Successfully saved"]
                /\ raised' = "none"
           ELSE IF converted.raised = "ValueError"
           THEN /\ returned' = [call |-> "_save_field",
                                field_name |-> field_name,
                                message |-> "Error saving"]
                /\ raised' = "none"
                /\ UNCHANGED << _collected_data, _attempts >>
           ELSE /\ returned' = [call |-> "_save_field",
                                field_name |-> field_name,
                                message |-> "none"]
                /\ raised' = converted.raised
                /\ UNCHANGED << _collected_data, _attempts >>
    /\ UNCHANGED field_specs
    /\ UNCHANGED << storeVars, callVars, fileVars >>
    /\ UNCHANGED responderVars

\* lines 158-161
reset ==
    /\ _collected_data' = {}
    /\ _attempts' = {}
    /\ returned' = [call |-> "reset", field_name |-> "", message |-> "none"]
    /\ raised' = "none"
    /\ UNCHANGED field_specs
    /\ UNCHANGED << storeVars, callVars, fileVars >>
    /\ UNCHANGED responderVars

AgentNext ==
    \/ \E field_name \in FieldNames, value \in Values :
          _save_field(field_name, value)
    \/ reset

AgentSpec == AgentInit /\ [][AgentNext]_vars

(* ---------------------------------------------------------------------- *)
(* ParsedFile.merge_all                                                   *)
(* ---------------------------------------------------------------------- *)
MaxOthers == 2

ParsedFile(name, sections, metadata) ==
    [name |-> name, sections |-> sections, metadata |-> metadata]

\* documents with and without sections, with metadata keys that clash
ParsedFiles ==
    { ParsedFile("doc1", <<"a1">>, { <<"k", "1">> }),
      ParsedFile("doc2", <<"b1", "b2">>, { <<"k", "2">>, <<"j", "2">> }),
      ParsedFile("doc3", <<>>, { <<"j", "3">> }),
      ParsedFile("doc4", <<"d1">>, {}) }

\* dict.update: the pairs of e replace those of d with the same key
Update(d, e) == {p \in d : p[1] \notin Keys(e)} \cup e

\* lines 227-228: for other in others: merged_metadata.update(other.metadata)
RECURSIVE MergeOthers(_, _)
MergeOthers(merged_metadata, files_) ==
    IF files_ = <<>> THEN merged_metadata
    ELSE MergeOthers(Update(merged_metadata, Head(files_).metadata),
                     Tail(files_))

\* line 234: chain(self.sections, *[other.sections for other in others])
RECURSIVE Chain(_, _)
Chain(sections, files_) ==
    IF files_ = <<>> THEN sections
    ELSE Chain(sections \o Head(files_).sections, Tail(files_))

\* variant: the others' metadata is applied over the receiver's
MergedMetadata_OthersWin(receiver, files_) ==
    MergeOthers(Update({}, receiver.metadata), files_)

\* lines 226-230
MergedMetadata(receiver, files_) ==
    Update(MergeOthers({}, files_), receiver.metadata)

FilesInit ==
    /\ StreamInit /\ NormIdle /\ StoreIdle /\ CallsIdle /\ AgentIdle
    /\ raised = "none"
    /\ self_file \in ParsedFiles
    /\ others \in SeqsUpTo(ParsedFiles, MaxOthers)
    /\ merged = <<>>

\* lines 182-236
merge_all ==
    /\ merged = <<>>
    /\ merged' = << ParsedFile(self_file.name,
                               Chain(self_file.sections, others),
                               MergedMetadata(self_file, others)) >>
    /\ raised' = "none"
    /\ UNCHANGED << self_file, others >>
    /\ UNCHANGED << storeVars, callVars, agentVars >>
    /\ UNCHANGED responderVars

FilesNext == merge_all

FilesSpec == FilesInit /\ [][FilesNext]_vars

TypeOK ==
    /\ pc \in {"idle", "in_session", "got_response", "returned_stream",
               "returned_response", "raised", "direct", "pair"}
    /\ parse_attempts \in 0..pos
    /\ normalize_calls \in 0..MaxNormalizeCalls
    /\ other.pos \in 0..Len(other.input)
    /\ gen \in {"none", "suspended", "reading", "done", "eof",
                "transport_error", "decode_error", "closed"}
    /\ pos \in 0..Len(input)
    /\ Len(emitted) <= pos

(* ---------------------------------------------------------------------- *)
(* What a body should produce, read off the lines alone                   *)
(* ---------------------------------------------------------------------- *)
\* the predicates below take the name of a line
IsDone(n) == LET l == LineOf[n] IN l.utf8 /\ l.prefix = "data: " /\ l.done

IsData(n) == LET l == LineOf[n] IN l.utf8 /\ l.prefix = "data: " /\ ~l.done

\* a data line whose payload is a JSON object that validates as an event
\* once its type is normalized
IsValidData(n) ==
    LET d == LineOf[n].payload
    IN  /\ IsData(n)
        /\ d.json = "obj"
        /\ ~NormalizeRaises(d)
        /\ Validates(_normalize_event_type(d))

TagOf(n) == MappingGet(LineOf[n].payload.type)

\* the lines before the first [DONE]
RECURSIVE BeforeDone(_)
BeforeDone(ls) ==
    IF ls = <<>> \/ IsDone(Head(ls)) THEN <<>>
    ELSE <<Head(ls)>> \o BeforeDone(Tail(ls))

\* normalized tags of the valid data lines, in order
RECURSIVE ExpectedTags(_)
ExpectedTags(ls) ==
    IF ls = <<>> THEN <<>>
    ELSE (IF IsValidData(Head(ls)) THEN <<TagOf(Head(ls))>> ELSE <<>>)
         \o ExpectedTags(Tail(ls))

Tags(evs) == [i \in 1..Len(evs) |-> evs[i].type]

EndsWithDone(ls) == ls # <<>> /\ IsDone(ls[Len(ls)])

HasDone(ls) == \E i \in 1..Len(ls) : IsDone(ls[i])

HasCompleted(ls) ==
    \E i \in 1..Len(ls) :
        IsValidData(ls[i]) /\ TagOf(ls[i]) = "ResponseCompletedEvent"

LinesRead == SubSeq(input, 1, pos)

\* the generator ended by itself: not cancelled, no failed read
EndedByItself == gen \in {"done", "eof", "decode_error"}

RespondExited == pc \in {"returned_stream", "returned_response", "raised"}

Is2xx(st) == st >= 200 /\ st <= 299

(* ---------------------------------------------------------------------- *)
(* Claims                                                                 *)
(* ---------------------------------------------------------------------- *)

\* C1: for every body that ends with a data: [DONE] line, once the stream
\* has ended the tags of the emitted events are the normalized tags of the
\* valid data lines before [DONE], in order.
C1_TagsFollowInput ==
    (EndsWithDone(input) /\ EndedByItself)
        => Tags(emitted) = ExpectedTags(BeforeDone(input))

\* C2: from the return of the stream to the caller until the stream
\* terminates, the response and the session are open.
C2_TransportOpenWhileStreamLive ==
    (pc = "returned_stream" /\ gen \in GenLive)
        => (response = "open" /\ session = "open")

\* what an exit of a streaming call leaves behind
C3_ExitReleased ==
    (is_streaming /\ RespondExited /\ session # "none")
        => /\ session = "closed" /\ closes = 1
           /\ response # "none" => (response = "released" /\ releases = 1)

C4_SkipStep ==
    (gen = "reading" /\ pos' = pos + 1
       /\ IsData(input[pos + 1]) /\ ~IsValidData(input[pos + 1]))
        => (gen' = "reading" /\ emitted' = emitted)

\* a valid line, a line to skip, a valid line, read to the end
C4_Sandwich ==
    (/\ gen = "eof"
     /\ Len(input) = 3
     /\ IsValidData(input[1])
     /\ IsData(input[2]) /\ ~IsValidData(input[2])
     /\ IsValidData(input[3]))
        => Tags(emitted) = << TagOf(input[1]), TagOf(input[3]) >>

\* C4: a data line that is not JSON, or does not validate as an event,
\* emits nothing and leaves the generator reading the next line; a body of
\* a valid line, such a line and a valid line read to its end gives the two
\* valid events in order.
C4_MalformedLineSkipped == [][C4_SkipStep]_vars /\ []C4_Sandwich

C4_Witness ==
    /\ gen = "eof"
    /\ response = "open"
    /\ Len(input) = 3
    /\ IsValidData(input[1])
    /\ input[2] = "not_json"
    /\ IsValidData(input[3])
    /\ Len(emitted) = 2

\* C5: whatever lines the transport delivers, iterating the stream never
\* raises to the consumer for a reason other than a failed read.
C5_NoPayloadErrorSurfaces == gen # "decode_error"

\* the step that reads the sentinel
C6_DoneStep ==
    (gen = "reading" /\ pos' = pos + 1 /\ IsDone(input[pos + 1]))
        => (gen' = "done" /\ emitted' = emitted)

\* nothing moves once the sentinel was read
C6_AfterDone ==
    gen = "done" => (gen' = "done" /\ pos' = pos /\ emitted' = emitted)

\* C6: reading data: [DONE] ends the generator normally without an event,
\* and afterwards no line is read and no event is emitted.
C6_DoneEndsStream ==
    /\ [][C6_DoneStep /\ C6_AfterDone]_vars
    /\ [](gen = "done" => (pos >= 1 /\ IsDone(input[pos])))
    /\ [](gen \in GenLive => ~HasDone(LinesRead))

C6_Witness ==
    /\ gen = "done"
    /\ response = "open"
    /\ pos < Len(input)
    /\ IsValidData(input[pos + 1])
    /\ Len(emitted) >= 1

\* C7: a body without [DONE] and without a completed event makes the
\* stream end without raising, with every valid event of the body emitted.
C7_EndWithoutDone ==
    (~HasDone(input) /\ ~HasCompleted(input) /\ EndedByItself)
        => (gen = "eof" /\ Tags(emitted) = ExpectedTags(input))

\* C8: a response whose status is not 2xx makes _respond_async raise the
\* API error; no stream and no response object is returned and no event
\* is ever emitted.
C8_Non2xxRaises ==
    (response # "none" /\ ~Is2xx(status))
        => /\ pc \in {"got_response", "raised"}
           /\ pc = "raised" => error = "ValueError: OpenRouter API error"
           /\ gen = "none"
           /\ emitted = <<>>

C8_Witness ==
    /\ pc = "raised"
    /\ is_streaming
    /\ status = 404
    /\ error = "ValueError: OpenRouter API error"
    /\ response = "released"

\* the emitted events are those of the valid data lines read so far
C9_OnlyDecodedEvents ==
    /\ Tags(emitted) = ExpectedTags(BeforeDone(LinesRead))
    /\ \A i \in 1..Len(emitted) :
          \E k \in 1..pos : IsValidData(input[k])
                            /\ emitted[i].type = TagOf(input[k])
                            /\ emitted[i].delta = LineOf[input[k]].payload.delta

\* the failing read emits nothing and nothing follows it
C9_FailStep ==
    /\ (gen # "transport_error" /\ gen' = "transport_error")
          => (emitted' = emitted /\ pos' = pos)
    /\ gen = "transport_error"
          => (gen' = "transport_error" /\ emitted' = emitted /\ pos' = pos)

\* C9: a failed read ends the stream; the events delivered are those of
\* the valid data lines read before it, and at no time is there an emitted
\* event that is not the event of a data line already read.
C9_TransportFailureEndsStream ==
    /\ []C9_OnlyDecodedEvents
    /\ [][C9_FailStep]_vars

C9_Witness ==
    /\ gen = "transport_error"
    /\ response = "open"
    /\ Len(emitted) >= 1
    /\ pos < Len(input)
    /\ IsValidData(input[pos + 1])

LastEmitted == emitted[Len(emitted)]

\* C10: a completed event decoded while a schema is supplied and the
\* accumulated text is non-empty, valid JSON and valid for the schema
\* carries the parsed object on every output_text content of every message
\* item.
C10_CompletedCarriesParsed ==
    (/\ gen = "suspended"
     /\ emitted # <<>>
     /\ LastEmitted.type = "ResponseCompletedEvent"
     /\ text_format # "None"
     /\ accumulated_text # <<>>
     /\ IsJson(accumulated_text) /\ SchemaOk(accumulated_text))
        => \A i \in 1..Len(LastEmitted.output) :
             \A j \in 1..Len(LastEmitted.output[i].content) :
                (LastEmitted.output[i].type = "message"
                 /\ LastEmitted.output[i].content[j] = "output_text")
                    => LastEmitted.parsed[i][j] = ModelValidate(accumulated_text)

\* the step that reads line pos + 1 of the body
ReadsNext == gen = "reading" /\ pos' = pos + 1

\* the line that step reads is a valid completed event
NextIsCompleted ==
    /\ pos < Len(input)
    /\ IsValidData(input[pos + 1])
    /\ TagOf(input[pos + 1]) = "ResponseCompletedEvent"

\* no content of the event has a parsed value
NothingParsed(ev) ==
    \A i \in 1..Len(ev.parsed) : \A j \in 1..Len(ev.parsed[i]) :
        ev.parsed[i][j] = <<>>

TextFitsSchema == IsJson(accumulated_text) /\ SchemaOk(accumulated_text)

\* a completed event read while the text does not fit the schema
C11_Step ==
    (ReadsNext /\ NextIsCompleted /\ text_format # "None" /\ ~TextFitsSchema)
        => /\ gen' = "suspended"
           /\ Len(emitted') = Len(emitted) + 1
           /\ SubSeq(emitted', 1, Len(emitted)) = emitted
           /\ emitted'[Len(emitted')].type = "ResponseCompletedEvent"
           /\ NothingParsed(emitted'[Len(emitted')])

\* C11: a completed event that arrives while the accumulated text is not
\* JSON or does not validate against the schema is still emitted, with no
\* parsed value on any content, and the generator stays live (no error).
C11_FailedParseLeavesEventBare == [][C11_Step]_vars

C11_Witness ==
    /\ gen = "eof"
    /\ response = "open"
    /\ text_format = "MathResponse"
    /\ parse_attempts = 1
    /\ IsJson(accumulated_text) /\ ~SchemaOk(accumulated_text)
    /\ emitted # <<>>
    /\ LastEmitted.type = "ResponseCompletedEvent"
    /\ NothingParsed(LastEmitted)

\* a completed event read without a schema or without accumulated text
C12_Step ==
    (ReadsNext /\ NextIsCompleted
       /\ (text_format = "None" \/ accumulated_text = <<>>))
        => /\ parse_attempts' = parse_attempts
           /\ emitted' = Append(emitted,
                 Event(_normalize_event_type(LineOf[input[pos + 1]].payload)))

\* C12: with no schema, or with no accumulated text, a completed event
\* triggers no structured-output attempt and is emitted as decoded.
C12_NoAttemptWithoutSchemaOrText == [][C12_Step]_vars

C12_Witness ==
    /\ gen = "suspended"
    /\ response = "open"
    /\ text_format = "MathResponse"
    /\ accumulated_text = <<>>
    /\ parse_attempts = 0
    /\ emitted # <<>>
    /\ LastEmitted.type = "ResponseCompletedEvent"
    /\ pos >= 2

\* concatenation of the deltas of the text-delta events
RECURSIVE DeltaText(_)
DeltaText(evs) ==
    IF evs = <<>> THEN <<>>
    ELSE (IF Head(evs).type = "ResponseTextDeltaEvent"
          THEN Head(evs).delta ELSE <<>>) \o DeltaText(Tail(evs))

\* C13: at every point the accumulated text is the concatenation, in
\* order, of the deltas of the emitted events whose normalized type is
\* ResponseTextDeltaEvent.
C13_TextIsDeltasOfEmitted == accumulated_text = DeltaText(emitted)

\* every change of the accumulated text is the append of a decoded delta
C14_Step ==
    accumulated_text' # accumulated_text
        => /\ ReadsNext
           /\ IsValidData(input[pos + 1])
           /\ TagOf(input[pos + 1]) = "ResponseTextDeltaEvent"
           /\ accumulated_text' =
                 accumulated_text \o LineOf[input[pos + 1]].payload.delta
           /\ Len(emitted') = Len(emitted) + 1

\* C14: the accumulated text changes only in a step that decodes a
\* text-delta event; every other line leaves it as it is.
C14_TextChangesOnlyOnDelta == [][C14_Step]_vars

C14_Witness ==
    /\ pos = 3
    /\ response = "open"
    /\ input[1] = "delta_four"
    /\ input[2] \in {"blank", "event", "comment", "not_json", "no_type",
                     "bad_delta"}
    /\ input[3] = "completed"
    /\ accumulated_text = <<"4">>
    /\ Len(emitted) = 2

\* C15: over one stream the structured-output attempt runs at most once.
C15_AtMostOneAttempt == parse_attempts <= 1

\* a line is read only while a pull is pending, and an event is handed
\* over in the step that decodes it
C16_Step ==
    /\ pos' # pos => ReadsNext
    /\ emitted' # emitted
          => /\ ReadsNext
             /\ IsValidData(input[pos + 1])
             /\ Len(emitted') = Len(emitted) + 1
             /\ gen' = "suspended"
    /\ (ReadsNext /\ IsValidData(input[pos + 1])) => emitted' # emitted

\* C16: every decoded event reaches the consumer before the next line is
\* read: lines are read only for a pending pull, the generator suspends on
\* each event, and no valid line read is left without its event.
C16_NoReadAhead ==
    /\ [][C16_Step]_vars
    /\ [](Len(emitted) = Len(ExpectedTags(BeforeDone(LinesRead))))
    /\ [](gen = "reading" => pos <= Len(input))

C16_Witness ==
    /\ gen = "suspended"
    /\ response = "open"
    /\ Len(emitted) >= 1
    /\ pos = Len(emitted)
    /\ pos < Len(input)
    /\ IsValidData(input[pos + 1])

\* the line is decodable text and does not begin with "data: "
IsNonData(n) == LineOf[n].utf8 /\ LineOf[n].prefix # "data: "

C20_Step ==
    (ReadsNext /\ IsNonData(input[pos + 1]))
        => /\ gen' = "reading"
           /\ emitted' = emitted
           /\ accumulated_text' = accumulated_text

C17_OnlyType(d, r) ==
    /\ [r EXCEPT !.type = d.type, !.typeKind = d.typeKind] = d
    /\ (d.typeKind = "str" /\ d.type \in DOMAIN type_mapping)
          => r.type = type_mapping[d.type]
    /\ (d.typeKind = "str" /\ d.type \notin DOMAIN type_mapping)
          => (r.type = d.type /\ r.typeKind = d.typeKind)

\* C17: _normalize_event_type changes nothing but the type: a key of the
\* table becomes its tag, any other type string stays as it was, and every
\* other field of the payload is returned as it was given.
C17_NormalizeChangesOnlyType ==
    normalize_calls = 1 => C17_OnlyType(norm_arg, norm_data)

C17_Witness ==
    /\ normalize_calls = 1
    /\ norm_arg.type = "response.output_text.delta"
    /\ norm_data.type = "ResponseTextDeltaEvent"
    /\ norm_data.delta = <<"4">>

\* C18: normalization is idempotent: after any number of applications the
\* payload is what one application gives, and no tag is a key of the table.
C18_NormalizeIdempotent ==
    /\ ValidTags \cap DOMAIN type_mapping = {}
    /\ normalize_calls >= 1 => norm_data = _normalize_event_type(norm_arg)

C18_Witness ==
    /\ normalize_calls = 2
    /\ norm_arg.type \in DOMAIN type_mapping
    /\ norm_data.type = type_mapping[norm_arg.type]

\* what _stream_events has emitted and accumulated after the first n lines
\* of a body, computed for that body alone
RECURSIVE RunAlone(_, _, _)
RunAlone(ls, n, tf) ==
    IF n = 0 THEN [acc |-> <<>>, emitted |-> <<>>]
    ELSE LET p == RunAlone(ls, n - 1, tf)
             r == LoopBody(LineOf[ls[n]], p.acc, tf)
         IN  [acc |-> r.acc, emitted |-> p.emitted \o r.event]

\* C19: two streams of one responder do not influence each other: under
\* every interleaving each stream's events (with their parsed values) and
\* accumulated text are those of a run of its own body alone.
C19_StreamsIndependent ==
    pc = "pair" =>
        LET alone == RunAlone(input, pos, text_format)
            other_alone == RunAlone(other.input, other.pos, other.text_format)
        IN  /\ emitted = alone.emitted
            /\ accumulated_text = alone.acc
            /\ other.emitted = other_alone.emitted
            /\ other.accumulated_text = other_alone.acc

C19_Witness ==
    /\ pc = "pair"
    /\ text_format = "MathResponse"
    /\ pos = 3
    /\ emitted # <<>>
    /\ LastEmitted.type = "ResponseCompletedEvent"
    /\ LastEmitted.parsed[1][1] = <<4>>
    /\ other.gen = "reading"
    /\ other.pos = 1
    /\ other.accumulated_text = <<"4">>

\* C21: with message_limit = L a stored conversation never holds more
\* than L messages.
C21_NeverMoreThanLimit ==
    message_limit # <<>>
        => \A p \in files : Len(p[2]) <= message_limit[1]

\* the last n elements of a sequence
LastN(seq, n) ==
    IF Len(seq) <= n THEN seq ELSE SubSeq(seq, Len(seq) - n + 1, Len(seq))

C26_IsolatedByChatId ==
    [][\A b \in ChatIds :
          (last_call'.op # "none" /\ last_call'.chat_id # b)
             => get_conversation_history_async(files', b) =
                   get_conversation_history_async(files, b)]_vars

\* an add on a conversation at its limit, without override
C27_Step ==
    (/\ adds' = adds + 1
     /\ message_limit # <<>>
     /\ override_old_messages # "True"
     /\ Len(_load_messages(files, last_call'.chat_id)) = message_limit[1])
        => files' = files /\ raised' = "none"

\* C27: without override, an add on a conversation that already holds
\* message_limit messages leaves every stored conversation as it was and
\* raises nothing.
C27_FullConversationUnchanged == [][C27_Step]_vars

C27_Witness ==
    /\ last_call.op = "add"
    /\ override_old_messages = "None"
    /\ message_limit = <<2>>
    /\ raised = "none"
    /\ Len(_load_messages(files, last_call.chat_id)) = 2
    /\ Len(GetOr(added, _get_file_path(last_call.chat_id), <<>>)) = 3

\* the calls added under a name, in the order they were added
CallsUnder(name) ==
    LET Named(c) == c.name = name
    IN  SelectSeq(call_log, Named)

\* the list behind an optional list
ListOf(opt) == IF opt = NoneValue THEN <<>> ELSE opt[1]

\* C23: retrieve_function_calls(name) gives the calls added under the
\* name, in order; retrieve_function_call(name) gives the last of them;
\* retrieve_function_call never raises and gives None for an unknown name,
\* a name without calls and an index out of range.
C23_RetrieveMatchesAdds ==
    \A name \in ToolNames \cup {"unknown"} :
        LET expected == CallsUnder(name)
        IN  /\ ListOf(retrieve_function_calls(store, name)) = expected
            /\ expected # <<>>
                  => retrieve_function_call(store, name, -1).value
                        = <<expected[Len(expected)]>>
            /\ \A index \in -(MaxCalls + 1)..MaxCalls :
                  LET got == retrieve_function_call(store, name, index)
                      n == Len(expected)
                  IN  /\ got.raised = "none"
                      /\ (index >= n \/ index < -n) => got.value = NoneValue
                      /\ (index >= 0 /\ index < n)
                            => got.value = <<expected[index + 1]>>
                      /\ (index < 0 /\ -index <= n)
                            => got.value = <<expected[n + index + 1]>>

C23_Witness ==
    /\ Len(call_log) = 3
    /\ Len(CallsUnder("f")) = 2
    /\ call_log[2].name = "g"
    /\ "h" \in Keys(store)
    /\ retrieve_function_calls(store, "h") = NoneValue
    /\ retrieve_function_call(store, "f", -1).value = <<call_log[3]>>

\* the required specs whose name is not collected
StillRequired(fs) == fs.required /\ fs.name \notin Keys(_collected_data)

\* C24: is_complete() holds exactly when every required name is collected,
\* pending_fields are the required names not collected, in field_specs
\* order, and completed holds exactly when pending_fields is empty.
C24_CompletionMatchesPending ==
    LET state == _get_current_state
        missing == SelectSeq(field_specs, StillRequired)
    IN  /\ is_complete <=>
              \A i \in 1..Len(field_specs) :
                 field_specs[i].required
                    => field_specs[i].name \in Keys(_collected_data)
        /\ state.pending_fields = [i \in 1..Len(missing) |-> missing[i].name]
        /\ state.completed <=> state.pending_fields = <<>>
        /\ state.fields = _collected_data

C24_Witness ==
    /\ Len(field_specs) = 3
    /\ field_specs[2].name = "interests"
    /\ returned.call = "_save_field"
    /\ Keys(_collected_data) = {field_specs[1].name, field_specs[3].name}
    /\ field_specs[1].name # field_specs[3].name
    /\ is_complete
    /\ _get_current_state.pending_fields = <<>>

\* what a call of _save_field may change
C28_Step ==
    returned'.call = "_save_field"
        => /\ raised' = "none"
           /\ returned'.message # "Successfully saved"
                 => UNCHANGED << _collected_data, _attempts >>
           /\ returned'.message = "Successfully saved"
                 => /\ Del(_collected_data', returned'.field_name)
                         = Del(_collected_data, returned'.field_name)
                    /\ returned'.field_name \in Keys(_collected_data')
           /\ returned'.message \in
                 {"Successfully saved", "Error: not a recognized field",
                  "Error saving"}

\* C28: _save_field with an unknown field name or a value that cannot be
\* converted returns an error message, raises nothing and changes neither
\* the collected data nor the attempts; a successful save changes the
\* collected data of the named field only.
C28_SaveFieldNeverRaises == [][C28_Step]_vars

\* C29: _list_collected_fields closes with "All required fields have been
\* collected" exactly when is_complete() holds, and with "Still Needed"
\* otherwise.
C29_ReportMatchesCompletion ==
    /\ (_list_collected_fields.closing
           = "All required fields have been collected") <=> is_complete
    /\ ~is_complete => (/\ _list_collected_fields.closing = "Still Needed"
                        /\ _list_collected_fields.pending # <<>>)

\* number of sections of the receiver and of the first n other files
RECURSIVE SectionsBefore(_)
SectionsBefore(n) ==
    IF n = 0 THEN Len(self_file.sections)
    ELSE SectionsBefore(n - 1) + Len(others[n].sections)

\* the other files that have the metadata key
Having(key) == {i \in 1..Len(others) : key \in Keys(others[i].metadata)}

\* the largest element of a set of numbers
Last(S) == CHOOSE i \in S : \A j \in S : j <= i

\* what merge_all returned
C25_Result ==
    LET m == merged[1]
    IN  /\ m.name = self_file.name
        /\ Len(m.sections) = SectionsBefore(Len(others))
        /\ SubSeq(m.sections, 1, Len(self_file.sections)) = self_file.sections
        /\ \A i \in 1..Len(others) :
              SubSeq(m.sections, SectionsBefore(i - 1) + 1, SectionsBefore(i))
                 = others[i].sections
        /\ Keys(m.metadata) =
              Keys(self_file.metadata)
                 \cup UNION {Keys(others[i].metadata) : i \in 1..Len(others)}
        /\ \A key \in Keys(m.metadata) :
              Get(m.metadata, key) =
                 IF key \in Keys(self_file.metadata)
                 THEN Get(self_file.metadata, key)
                 ELSE Get(others[Last(Having(key))].metadata, key)
        /\ \A key \in Keys(m.metadata) :
              Cardinality({p \in m.metadata : p[1] = key}) = 1

\* C25: merge_all returns a ParsedFile with the receiver's name, the
\* receiver's sections followed by those of the others in order, and
\* metadata where the receiver's value wins and otherwise the last other
\* file's; the receiver and the others are left as they were.
C25_MergeAll ==
    /\ [](merged # <<>> => C25_Result)
    /\ [][self_file' = self_file /\ others' = others]_vars

C25_Witness ==
    /\ merged # <<>>
    /\ Len(others) = 2
    /\ self_file.name = "doc1"
    /\ others[1].name = "doc2" /\ others[2].name = "doc3"
    /\ merged[1].sections = <<"a1", "b1", "b2">>
    /\ merged[1].metadata = { <<"k", "1">>, <<"j", "3">> }
====
